---------------------------- MODULE Spec2Model ----------------------------
(***************************************************************************)
(* A model of vtkdiff (src/vtkdiff.cpp): main() reads two data arrays,     *)
(* validates their type and shape, scans them element by element while     *)
(* accumulating per-component error norms, reports the norms and derives   *)
(* the exit status from the maximum norms and the two thresholds.          *)
(*                                                                         *)
(* A double is modelled as an exact rational [n |-> numerator,             *)
(* d |-> denominator] in lowest terms, with d = 0 standing for +infinity.  *)
(* The array values are drawn from Values; they are finite, so neither     *)
(* -infinity nor NaN arises anywhere in the scan, and they are small       *)
(* integers, so every sum, product and quotient of the scan is exact in    *)
(* binary64 as well.  std::sqrt rounds; here it rounds down to the         *)
(* denominator of its argument.                                            *)
(***************************************************************************)
EXTENDS Integers, Sequences, FiniteSets, TLC

(***************************************************************************)
(* Bounds of the model.                                                    *)
(***************************************************************************)
MaxTuples == 2
MaxComponents == 2

(***************************************************************************)
(* Process exit statuses.                                                  *)
(***************************************************************************)
EXIT_SUCCESS == 0
EXIT_FAILURE == 1
SIGABRT_STATUS == 134

(***************************************************************************)
(* Doubles.                                                                *)
(***************************************************************************)
RECURSIVE GCD(_, _)
GCD(x, y) == IF y = 0 THEN x ELSE GCD(y, x % y)

IAbs(i) == IF i < 0 THEN -i ELSE i

Norm(n, d) ==
    LET g == GCD(IAbs(n), d)
    IN  [n |-> IF n < 0 THEN -(IAbs(n) \div g) ELSE n \div g, d |-> d \div g]

R(i) == [n |-> i, d |-> 1]

Frac(n, d) == Norm(n, d)

Infinity == [n |-> 1, d |-> 0]

IsInf(x) == x.d = 0

\* operator== on doubles
Eq(x, y) == x.n = y.n /\ x.d = y.d

\* operator< on doubles
Less(x, y) ==
    IF IsInf(x) THEN FALSE
    ELSE IF IsInf(y) THEN TRUE
    ELSE x.n * y.d < y.n * x.d

\* operator>= in the place of operator>
GreaterOrEqual(x, y) == ~Less(x, y)

\* operator> on doubles
Greater(x, y) == Less(y, x)

\* operator+ on doubles (no operand is -infinity or NaN)
Add(x, y) ==
    IF IsInf(x) \/ IsInf(y) THEN Infinity
    ELSE Norm(x.n * y.d + y.n * x.d, x.d * y.d)

\* operator- on finite doubles
Sub(x, y) == Norm(x.n * y.d - y.n * x.d, x.d * y.d)

\* operator* on doubles (never 0 * infinity in the scan)
Mul(x, y) ==
    IF IsInf(x) \/ IsInf(y) THEN Infinity
    ELSE Norm(x.n * y.n, x.d * y.d)

\* operator/ on finite doubles, x >= 0, y > 0
Div(x, y) == Norm(x.n * y.d, x.d * y.n)

std_abs(x) == IF IsInf(x) THEN x ELSE [n |-> IAbs(x.n), d |-> x.d]

\* std::min(x, y) is (y < x) ? y : x
std_min(x, y) == IF Less(y, x) THEN y ELSE x

\* std::max(x, y) is (x < y) ? y : x
std_max(x, y) == IF Less(x, y) THEN y ELSE x

RECURSIVE ISqrtFrom(_, _)
ISqrtFrom(q, r) == IF (r + 1) * (r + 1) > q THEN r ELSE ISqrtFrom(q, r + 1)

\* std::sqrt, rounded down to a multiple of 1/x.d
std_sqrt(x) ==
    IF IsInf(x) THEN Infinity
    ELSE Norm(ISqrtFrom(x.n * x.d, 0), x.d)

RECURSIVE MaxFrom(_, _, _)
MaxFrom(v, i, best) ==
    IF i > Len(v) THEN best
    ELSE MaxFrom(v, i + 1, IF Less(v[best], v[i]) THEN i ELSE best)

\* v.front() in the place of the largest element
first_element(v) == v[1]

\* *std::max_element(v.begin(), v.end()) of a non-empty vector
max_element(v) == v[MaxFrom(v, 2, 1)]


(***************************************************************************)
(* Command line (struct Args) and the inputs of a run.                     *)
(***************************************************************************)
DotVtu == <<".", "v", "t", "u">>

FileM == <<"m">> \o DotVtu

FileLegacy == <<"m", ".", "v", "t", "k">>

FileShort == <<"m">>

\* vtk_input_a is required
InputsA == {FileM, FileLegacy, FileShort}

\* (vtk_input_b, data_array_b); vtk_input_b defaults to the empty string and
\* data_array_a is "p": the same array of the only file, another array of
\* it, and the same array of the first file named a second time
SecondInputs == {<< <<>>, "p">>, << <<>>, "q">>, <<FileM, "p">>}

\* (abs_err_thr, rel_err_thr) as given with --abs and --rel
ThresholdPairs == {<<R(0), R(0)>>, <<R(2), Frac(5, 2)>>, <<R(-1), R(-1)>>}

\* the values a component of an array may hold
Values == {R(-3), R(0), R(2)}

ArgsSet ==
    { [quiet |-> q, verbose |-> v, abs_err_thr |-> th[1], rel_err_thr |-> th[2],
       vtk_input_a |-> fa, vtk_input_b |-> sb[1],
       data_array_a |-> "p", data_array_b |-> sb[2]] :
         q \in BOOLEAN, v \in BOOLEAN, th \in ThresholdPairs,
         fa \in InputsA, sb \in SecondInputs }

stringEndsWith(str, ending) ==
    IF Len(str) < Len(ending) THEN FALSE
    ELSE LET string_end_length == Len(str) - Len(ending)
         IN  SubSeq(str, string_end_length + 1, Len(str)) = ending

(***************************************************************************)
(* Data arrays (vtkDataArray).  file and name say where the array was read *)
(* from; the values themselves are read by GetComponent during the scan.   *)
(***************************************************************************)
NullArray ==
    [null |-> TRUE, file |-> <<>>, name |-> "", numeric |-> FALSE,
     num_tuples |-> 0, num_components |-> 0]

\* the arrays a file may hold under a name; a vtkDataArray has >= 1 components
ArraysOf(file, name) ==
    { [null |-> FALSE, file |-> file, name |-> name, numeric |-> nm,
       num_tuples |-> nt, num_components |-> nc] :
         nm \in BOOLEAN, nt \in 0..MaxTuples, nc \in 1..MaxComponents }

\* two reads of the same array of the same file see the same data
SameSource(x, y) == x.file = y.file /\ x.name = y.name

VARIABLES
    args,               \* the parsed command line
    pc,                 \* position in main()
    exit_status,        \* the status the process ended with
    read_successful, a, b,
    num_tuples, num_components,
    abs_err_norm_l1, abs_err_norm_2_2, abs_err_norm_max,
    rel_err_norm_l1, rel_err_norm_2_2, rel_err_norm_max,
    tuple_idx, component_idx,
    a_comp, b_comp, abs_err, rel_err,   \* locals of the last loop body
    cout, cerr,         \* lines written to the two streams
    elements_read,      \* number of GetComponent pairs read so far
    all_equal,          \* every pair read so far had a_comp = b_comp
    flagged,            \* some element read so far exceeded both thresholds
    abs_exceeded,       \* some element read so far had abs_err > abs_err_thr
    rel_exceeded        \* some element read so far had rel_err > rel_err_thr

norms == <<abs_err_norm_l1, abs_err_norm_2_2, abs_err_norm_max,
           rel_err_norm_l1, rel_err_norm_2_2, rel_err_norm_max>>

locals == <<a_comp, b_comp, abs_err, rel_err>>

history == <<elements_read, all_equal, flagged, abs_exceeded, rel_exceeded>>

arrays == <<read_successful, a, b>>

vars == <<args, pc, exit_status, arrays, num_tuples, num_components, norms,
          tuple_idx, component_idx, locals, cout, cerr, history>>

Line(label, value) == [label |-> label, value |-> value]

Init ==
    /\ args \in ArgsSet
    /\ pc = "start"
    /\ exit_status = EXIT_SUCCESS
    /\ read_successful = FALSE
    /\ a = NullArray
    /\ b = NullArray
    /\ num_tuples = 0
    /\ num_components = 0
    /\ abs_err_norm_l1 = <<>>
    /\ abs_err_norm_2_2 = <<>>
    /\ abs_err_norm_max = <<>>
    /\ rel_err_norm_l1 = <<>>
    /\ rel_err_norm_2_2 = <<>>
    /\ rel_err_norm_max = <<>>
    /\ tuple_idx = 0
    /\ component_idx = 0
    /\ a_comp = R(0)
    /\ b_comp = R(0)
    /\ abs_err = R(0)
    /\ rel_err = R(0)
    /\ cout = <<>>
    /\ cerr = <<>>
    /\ elements_read = 0
    /\ all_equal = TRUE
    /\ flagged = FALSE
    /\ abs_exceeded = FALSE
    /\ rel_exceeded = FALSE

\* return status from main(), or std::abort()
Exit(status) ==
    /\ pc' = "done"
    /\ exit_status' = status

(***************************************************************************)
(* main(), lines 289-301: only .vtu files are read.                        *)
(***************************************************************************)
InvalidFileType ==
    /\ pc = "start"
    /\ ~stringEndsWith(args.vtk_input_a, DotVtu)
    /\ cerr' = Append(cerr, "Invalid file type!")
    /\ Exit(EXIT_FAILURE)
    /\ UNCHANGED <<args, arrays, num_tuples, num_components, norms, tuple_idx,
                   component_idx, locals, cout, history>>


(***************************************************************************)
(* readDataArraysFromFile(), lines 180-273, called from main() line 290.   *)
(* Each action below is one way through the function; what the files hold  *)
(* is an input.                                                            *)
(***************************************************************************)
ReadCalled ==
    /\ pc = "start"
    /\ stringEndsWith(args.vtk_input_a, DotVtu)

\* the name the second array is read from: reader_a's file when no second
\* file is given (lines 230-262)
FileOfB == IF args.vtk_input_b = <<>> THEN args.vtk_input_a ELSE args.vtk_input_b

\* the self-comparison guard of lines 230-238
ComparesToItself ==
    /\ args.vtk_input_b = <<>>
    /\ args.data_array_a = args.data_array_b

ReturnNotRead(message) ==
    /\ cerr' = Append(cerr, message)
    /\ read_successful' = FALSE
    /\ a' = NullArray
    /\ b' = NullArray
    /\ pc' = "read_done"
    /\ UNCHANGED <<args, exit_status, num_tuples, num_components, norms,
                   tuple_idx, component_idx, locals, cout, history>>

Abort(message) ==
    /\ cerr' = Append(cerr, message)
    /\ Exit(SIGABRT_STATUS)
    /\ UNCHANGED <<args, arrays, num_tuples, num_components, norms, tuple_idx,
                   component_idx, locals, cout, history>>

\* ErrorCallback::Execute on reader_a->Update(), lines 168-175 and 192
ReadErrorA ==
    /\ ReadCalled
    /\ Abort("Error reading file")

\* lines 194-207: the array is in neither the point data nor the cell data
ArrayANotFound ==
    /\ ReadCalled
    /\ ReturnNotRead("neither found in point data nor in cell data")

\* lines 209-227: HasArray found the name, GetScalars returned null
ArrayAUnreadable ==
    /\ ReadCalled
    /\ ReturnNotRead("could not be read")

\* lines 229-238
SelfComparison ==
    /\ ReadCalled
    /\ ComparesToItself
    /\ Abort("You are trying to compare data array to itself")

\* ErrorCallback::Execute on reader_b->Update(), lines 250-253
ReadErrorB ==
    /\ ReadCalled
    /\ args.vtk_input_b # <<>>
    /\ Abort("Error reading file")

\* lines 239-270: array a was read, GetScalars returned null for array b
ArrayBNotFound ==
    /\ ReadCalled
    /\ ~ComparesToItself
    /\ ~(FileOfB = args.vtk_input_a /\ args.data_array_b = args.data_array_a)
    /\ ReturnNotRead("not found")

\* line 272: both arrays were read
ReadArrays ==
    /\ ReadCalled
    /\ ~ComparesToItself
    /\ \E x \in ArraysOf(args.vtk_input_a, args.data_array_a),
          y \in ArraysOf(FileOfB, args.data_array_b) :
            /\ SameSource(x, y) => y = x
            /\ a' = x
            /\ b' = y
    /\ read_successful' = TRUE
    /\ pc' = "read_done"
    /\ UNCHANGED <<args, exit_status, num_tuples, num_components, norms,
                   tuple_idx, component_idx, locals, cout, cerr, history>>

(***************************************************************************)
(* main(), lines 303-347: validation of the two arrays.                    *)
(***************************************************************************)
ReadNotSuccessful ==
    /\ pc = "read_done"
    /\ ~read_successful
    /\ Exit(EXIT_FAILURE)
    /\ UNCHANGED <<args, arrays, num_tuples, num_components, norms, tuple_idx,
                   component_idx, locals, cout, cerr, history>>

\* lines 306-310
Announce ==
    /\ pc = "read_done"
    /\ read_successful
    /\ cout' = IF ~args.quiet THEN Append(cout, Line("Comparing data array", <<>>))
               ELSE cout
    /\ pc' = "is_numeric"
    /\ UNCHANGED <<args, exit_status, arrays, num_tuples, num_components,
                   norms, tuple_idx, component_idx, locals, cerr, history>>

Fail(message) ==
    /\ cerr' = Append(cerr, message)
    /\ Exit(EXIT_FAILURE)
    /\ UNCHANGED <<args, arrays, norms, tuple_idx, component_idx, locals,
                   cout, history>>

\* lines 315-321
NotNumericA ==
    /\ pc = "is_numeric"
    /\ ~a.numeric
    /\ Fail("Data in data array a is not numeric")
    /\ UNCHANGED <<num_tuples, num_components>>

\* lines 322-327
NotNumericB ==
    /\ pc = "is_numeric"
    /\ a.numeric
    /\ ~b.numeric
    /\ Fail("Data in data array b is not numeric")
    /\ UNCHANGED <<num_tuples, num_components>>

\* a tuple-count test that never reports a difference
TuplesNeverDiffer(x, y) == FALSE

\* the test of line 331
TuplesDiffer(x, y) == x.num_tuples # y.num_tuples

\* the test of line 341
ComponentsDiffer(x, y) == x.num_components # y.num_components

\* lines 329-337
NumberOfTuplesDiffer ==
    /\ pc = "is_numeric"
    /\ a.numeric
    /\ b.numeric
    /\ TuplesDiffer(a, b)
    /\ num_tuples' = a.num_tuples
    /\ Fail("Number of tuples differ")
    /\ UNCHANGED num_components

\* lines 339-347
NumberOfComponentsDiffer ==
    /\ pc = "is_numeric"
    /\ a.numeric
    /\ b.numeric
    /\ ~TuplesDiffer(a, b)
    /\ ComponentsDiffer(a, b)
    /\ num_tuples' = a.num_tuples
    /\ num_components' = a.num_components
    /\ Fail("Number of components differ")

\* std::vector<double> v(n): n value-initialised entries
ZeroVector(n) == [i \in 1..n |-> R(0)]

\* lines 329-359: the arrays are compatible; the six norm vectors are created
CreateNorms ==
    /\ pc = "is_numeric"
    /\ a.numeric
    /\ b.numeric
    /\ ~TuplesDiffer(a, b)
    /\ ~ComponentsDiffer(a, b)
    /\ num_tuples' = a.num_tuples
    /\ num_components' = a.num_components
    /\ abs_err_norm_l1' = ZeroVector(a.num_components)
    /\ abs_err_norm_2_2' = ZeroVector(a.num_components)
    /\ abs_err_norm_max' = ZeroVector(a.num_components)
    /\ rel_err_norm_l1' = ZeroVector(a.num_components)
    /\ rel_err_norm_2_2' = ZeroVector(a.num_components)
    /\ rel_err_norm_max' = ZeroVector(a.num_components)
    /\ tuple_idx' = 0
    /\ component_idx' = 0
    /\ pc' = "scan"
    /\ UNCHANGED <<args, exit_status, arrays, locals, cout, cerr, history>>


(***************************************************************************)
(* main(), lines 361-408: the scan.                                        *)
(***************************************************************************)
\* the zero-operand test taken before the abs_err test
RelErrZeroFirst(av, bv, ae) ==
    IF Eq(av, R(0)) \/ Eq(bv, R(0)) THEN Infinity
    ELSE IF Eq(ae, R(0)) THEN R(0)
    ELSE Div(ae, std_min(std_abs(av), std_abs(bv)))

\* lines 376-390
RelErr(av, bv, ae) ==
    IF Eq(ae, R(0)) THEN R(0)
    ELSE IF Eq(av, R(0)) \/ Eq(bv, R(0)) THEN Infinity
    ELSE Div(ae, std_min(std_abs(av), std_abs(bv)))

\* v[c] += x (lines 370, 371, 392, 393); c counts from 0
Accumulate(v, c, x) == [v EXCEPT ![c + 1] = Add(v[c + 1], x)]

\* v[c] = x: the running maximum forgotten
TakeLast(v, c, x) == [v EXCEPT ![c + 1] = x]

\* v[c] = std::max(v[c], x) (lines 372-373, 394-395)
TakeMax(v, c, x) == [v EXCEPT ![c + 1] = std_max(v[c + 1], x)]

\* the test of lines 397-398 without args.verbose
ExceedsBoth(ae, re) ==
    /\ Greater(ae, args.abs_err_thr)
    /\ Greater(re, args.rel_err_thr)

\* the condition under which lines 400-405 write a line to std::cout; the
\* model keeps the line, not the four numbers on it
PrintsElement(ae, re) == ExceedsBoth(ae, re) /\ args.verbose

\* one pass through the inner loop body, with the loop increments
ScanElement ==
    /\ pc = "scan"
    /\ tuple_idx < num_tuples
    /\ component_idx < num_components
    /\ \E av \in Values, bv \in Values :
         /\ SameSource(a, b) => bv = av
         /\ LET ae == std_abs(Sub(av, bv))
                re == RelErr(av, bv, ae)
            IN  /\ a_comp' = av
                /\ b_comp' = bv
                /\ abs_err' = ae
                /\ rel_err' = re
                /\ abs_err_norm_l1' = Accumulate(abs_err_norm_l1, component_idx, ae)
                /\ abs_err_norm_2_2' =
                       Accumulate(abs_err_norm_2_2, component_idx, Mul(ae, ae))
                /\ abs_err_norm_max' = TakeMax(abs_err_norm_max, component_idx, ae)
                /\ rel_err_norm_l1' = Accumulate(rel_err_norm_l1, component_idx, re)
                /\ rel_err_norm_2_2' =
                       Accumulate(rel_err_norm_2_2, component_idx, Mul(re, re))
                /\ rel_err_norm_max' = TakeMax(rel_err_norm_max, component_idx, re)
                /\ cout' = IF PrintsElement(ae, re)
                           THEN Append(cout, Line("tuple", <<>>))
                           ELSE cout
                /\ elements_read' = elements_read + 1
                /\ all_equal' = (all_equal /\ Eq(av, bv))
                /\ flagged' = (flagged \/ ExceedsBoth(ae, re))
                /\ abs_exceeded' = (abs_exceeded \/ Greater(ae, args.abs_err_thr))
                /\ rel_exceeded' = (rel_exceeded \/ Greater(re, args.rel_err_thr))
    /\ IF component_idx + 1 < num_components
       THEN /\ component_idx' = component_idx + 1
            /\ tuple_idx' = tuple_idx
       ELSE /\ component_idx' = 0
            /\ tuple_idx' = tuple_idx + 1
    /\ UNCHANGED <<args, pc, exit_status, arrays, num_tuples, num_components, cerr>>

(***************************************************************************)
(* main(), lines 410-438: the report.                                      *)
(***************************************************************************)
\* std::transform(..., [](double x) { return std::sqrt(x); })
SqrtVector(v) == [i \in 1..Len(v) |-> std_sqrt(v[i])]

\* the vector written after "abs l2-norm      = " (lines 418-422)
ReportedAbsL2 == SqrtVector(abs_err_norm_2_2)

\* the vector written after "rel l2-norm      = " (lines 431-435)
ReportedRelL2 == rel_err_norm_2_2

ReportLines ==
    << Line("Computed difference between data arrays:", <<>>),
       Line("abs l1 norm", abs_err_norm_l1),
       Line("abs l2-norm^2", abs_err_norm_2_2),
       Line("abs l2-norm", ReportedAbsL2),
       Line("abs maximum norm", abs_err_norm_max),
       Line("", <<>>),
       Line("rel l1 norm", rel_err_norm_l1),
       Line("rel l2-norm^2", rel_err_norm_2_2),
       Line("rel l2-norm", ReportedRelL2),
       Line("rel maximum norm", rel_err_norm_max) >>

\* what lines 411-438 write
Report == IF ~args.quiet THEN ReportLines ELSE <<>>

(***************************************************************************)
(* main(), lines 440-451: the verdict.                                     *)
(***************************************************************************)
\* either threshold exceeded, in the place of both
ExceedsEitherThreshold ==
    \/ Greater(max_element(abs_err_norm_max), args.abs_err_thr)
    \/ Greater(max_element(rel_err_norm_max), args.rel_err_thr)

\* both thresholds exceeded by the maxima of one and the same component
ExceedsAtOneComponent ==
    \E c \in 1..Len(abs_err_norm_max) :
        /\ Greater(abs_err_norm_max[c], args.abs_err_thr)
        /\ Greater(rel_err_norm_max[c], args.rel_err_thr)

\* the condition of lines 440-443
ExceedsThresholds ==
    /\ Greater(max_element(abs_err_norm_max), args.abs_err_thr)
    /\ Greater(max_element(rel_err_norm_max), args.rel_err_thr)

\* lines 445-447
FailureLine ==
    IF ~args.quiet
    THEN <<Line("Absolute and relative error (maximum norm) are larger than the corresponding thresholds.", <<>>)>>
    ELSE <<>>

\* the loops are left: report, then return EXIT_FAILURE (lines 410-449)
ReportAndFail ==
    /\ pc = "scan"
    /\ tuple_idx >= num_tuples
    /\ ExceedsThresholds
    /\ cout' = cout \o Report \o FailureLine
    /\ Exit(EXIT_FAILURE)
    /\ UNCHANGED <<args, arrays, num_tuples, num_components, norms, tuple_idx,
                   component_idx, locals, cerr, history>>

\* the loops are left: report, then return EXIT_SUCCESS (lines 410-451)
ReportAndPass ==
    /\ pc = "scan"
    /\ tuple_idx >= num_tuples
    /\ ~ExceedsThresholds
    /\ cout' = cout \o Report
    /\ Exit(EXIT_SUCCESS)
    /\ UNCHANGED <<args, arrays, num_tuples, num_components, norms, tuple_idx,
                   component_idx, locals, cerr, history>>

Next ==
    \/ InvalidFileType
    \/ ReadErrorA
    \/ ArrayANotFound
    \/ ArrayAUnreadable
    \/ SelfComparison
    \/ ReadErrorB
    \/ ArrayBNotFound
    \/ ReadArrays
    \/ ReadNotSuccessful
    \/ Announce
    \/ NotNumericA
    \/ NotNumericB
    \/ NumberOfTuplesDiffer
    \/ NumberOfComponentsDiffer
    \/ CreateNorms
    \/ ScanElement
    \/ ReportAndFail
    \/ ReportAndPass

Spec == Init /\ [][Next]_vars


(***************************************************************************)
(* Properties.                                                             *)
(***************************************************************************)
Done == pc = "done"

\* the scan was entered: the six norm vectors exist
ScanEntered == pc = "scan" \/ (Done /\ Len(abs_err_norm_max) > 0)

ScanFinished == Done /\ Len(abs_err_norm_max) > 0

Components == 1..Len(abs_err_norm_max)

NonNegative(x) == ~Less(x, R(0))

ThresholdsNonNegative ==
    NonNegative(args.abs_err_thr) /\ NonNegative(args.rel_err_thr)

\* C1: after the scan the run exits with failure iff the largest abs_max
\* entry exceeds abs_err_thr and the largest rel_max entry exceeds
\* rel_err_thr, and with success (0) in every other case.
C1_Verdict ==
    ScanFinished =>
        /\ exit_status \in {EXIT_SUCCESS, EXIT_FAILURE}
        /\ (exit_status # EXIT_SUCCESS) <=>
              /\ \E c \in Components :
                    /\ Less(args.abs_err_thr, abs_err_norm_max[c])
                    /\ \A e \in Components :
                          ~Less(abs_err_norm_max[c], abs_err_norm_max[e])
              /\ \E c \in Components :
                    /\ Less(args.rel_err_thr, rel_err_norm_max[c])
                    /\ \A e \in Components :
                          ~Less(rel_err_norm_max[c], rel_err_norm_max[e])

\* a failing run of two components whose first component stays within the
\* absolute threshold, and only one of the two maxima is infinite
C1_Witness ==
    /\ ScanFinished
    /\ exit_status = EXIT_FAILURE
    /\ num_components = 2
    /\ elements_read = 4
    /\ ~Less(args.abs_err_thr, abs_err_norm_max[1])
    /\ Less(args.abs_err_thr, abs_err_norm_max[2])
    /\ ~IsInf(rel_err_norm_max[2])

\* the arrays were not both read, or are not numeric, or differ in shape
ValidationFails ==
    \/ ~read_successful
    \/ a.null
    \/ b.null
    \/ ~a.numeric
    \/ ~b.numeric
    \/ a.num_tuples # b.num_tuples
    \/ a.num_components # b.num_components

NoNormLine ==
    \A i \in DOMAIN cout : cout[i].label = "Comparing data array"

\* C2: when the array lookup fails, an array is not numeric or the shapes
\* differ, the run ends with a failure status before the scan: no element
\* is read, no norm vector exists, no norm is reported, the run is not
\* stuck and it never ends with success.
C2_FailFast ==
    (pc # "start" /\ ValidationFails) =>
        /\ pc # "scan"
        /\ elements_read = 0
        /\ \A i \in 1..6 : norms[i] = <<>>
        /\ NoNormLine
        /\ Done => exit_status # EXIT_SUCCESS
        /\ ~Done => ENABLED Next

\* two numeric arrays of different tuple counts, rejected
C2_Witness ==
    /\ Done
    /\ read_successful
    /\ a.numeric
    /\ b.numeric
    /\ a.num_tuples # b.num_tuples
    /\ a.num_components = b.num_components
    /\ exit_status = EXIT_FAILURE

\* m is the smaller of |x| and |y|
SmallerMagnitude(m, x, y) ==
    /\ m \in {std_abs(x), std_abs(y)}
    /\ ~Less(std_abs(x), m)
    /\ ~Less(std_abs(y), m)

\* C3: the relative error of the element read last is 0 when its absolute
\* error is 0 (also for two zeros), +infinity when the absolute error is
\* not 0 and one operand is 0, and otherwise the absolute error divided by
\* the smaller magnitude.
C3_RelErr ==
    elements_read > 0 =>
        /\ NonNegative(abs_err)
        /\ Eq(abs_err, Sub(a_comp, b_comp)) \/ Eq(abs_err, Sub(b_comp, a_comp))
        /\ Eq(abs_err, R(0)) => Eq(rel_err, R(0))
        /\ (~Eq(abs_err, R(0)) /\ (a_comp.n = 0 \/ b_comp.n = 0)) => IsInf(rel_err)
        /\ (~Eq(abs_err, R(0)) /\ a_comp.n # 0 /\ b_comp.n # 0) =>
              /\ ~IsInf(rel_err)
              /\ \E m \in {std_abs(a_comp), std_abs(b_comp)} :
                    /\ SmallerMagnitude(m, a_comp, b_comp)
                    /\ Eq(Mul(rel_err, m), abs_err)

\* all three cases of the policy have been read: an equal pair, a zero
\* against a non-zero, and last two non-zeros of different magnitude
C3_Witness ==
    /\ pc = "scan"
    /\ elements_read = 3
    /\ tuple_idx = 1
    /\ Eq(rel_err_norm_max[1], Infinity)
    /\ Eq(rel_err_norm_l1[2], R(0))
    /\ Eq(a_comp, R(2))
    /\ Eq(b_comp, R(-3))
    /\ Eq(rel_err, Frac(5, 2))

AllZero(v) == \A c \in DOMAIN v : Eq(v[c], R(0))

\* C4: when every element of b equals the element of a at its place, all
\* six norm vectors are zero throughout and after the scan, and with
\* thresholds >= 0 the run exits with success.
C4_Identity ==
    (ScanEntered /\ all_equal) =>
        /\ \A i \in 1..6 : AllZero(norms[i])
        /\ (Done /\ ThresholdsNonNegative) => exit_status = EXIT_SUCCESS

\* two equal 2 x 2 arrays read from different places, zero thresholds
C4_Witness ==
    /\ ScanFinished
    /\ all_equal
    /\ ~SameSource(a, b)
    /\ elements_read = 4
    /\ ~Eq(a_comp, R(0))
    /\ Eq(args.abs_err_thr, R(0))
    /\ Eq(args.rel_err_thr, R(0))
    /\ exit_status = EXIT_SUCCESS

LinesLabelled(label) == {i \in DOMAIN cout : cout[i].label = label}

\* r is the square root of x, rounded as std_sqrt rounds
IsRoot(r, x) ==
    IF IsInf(x) THEN IsInf(r)
    ELSE /\ ~IsInf(r)
         /\ NonNegative(r)
         /\ ~Less(x, Mul(r, r))
         /\ Less(x, Mul(Add(r, Frac(1, x.d)), Add(r, Frac(1, x.d))))

\* C5: in the report the 'abs l2-norm' entry of every component is the
\* square root of abs_l2sq[c] and the 'rel l2-norm' entry is the square
\* root of rel_l2sq[c].
C5_ReportedL2 ==
    /\ \A i \in LinesLabelled("abs l2-norm") : \A c \in Components :
          IsRoot(cout[i].value[c], abs_err_norm_2_2[c])
    /\ \A i \in LinesLabelled("rel l2-norm") : \A c \in Components :
          IsRoot(cout[i].value[c], rel_err_norm_2_2[c])

\* C6: with the quiet flag nothing is written to standard output.
C6_QuietSilent == args.quiet => cout = <<>>

\* C7: when both array names are equal and both arrays come from the same
\* file (second file omitted or equal to the first), the scan is never
\* reached and the run never ends with success.
C7_SelfComparisonGuard ==
    ( /\ args.data_array_a = args.data_array_b
      /\ args.vtk_input_b \in {<<>>, args.vtk_input_a} ) =>
        /\ pc # "scan"
        /\ elements_read = 0
        /\ ~(Done /\ exit_status = EXIT_SUCCESS)

\* C8: the verdict is fail exactly when some element exceeds abs_err_thr
\* and some element, possibly another one, exceeds rel_err_thr (for
\* thresholds >= 0 or a non-empty scan); no single element need exceed both.
C8_IndependentMaxima ==
    (ScanFinished /\ (ThresholdsNonNegative \/ elements_read > 0)) =>
        ((exit_status = EXIT_FAILURE) <=> (abs_exceeded /\ rel_exceeded))

\* a failing verbose run in which no element exceeded both thresholds and
\* no per-element line was written
C8_Witness ==
    /\ ScanFinished
    /\ exit_status = EXIT_FAILURE
    /\ ThresholdsNonNegative
    /\ ~flagged
    /\ args.verbose
    /\ ~args.quiet
    /\ LinesLabelled("tuple") = {}

NotSmaller(v, w) == \A c \in DOMAIN v : ~Less(w[c], v[c])

\* v and w agree at every index but c
SameBut(v, w, c) == \A i \in DOMAIN v : i # c => v[i] = w[i]

AccumulatorsShape ==
    \A i \in 1..6 :
        /\ Len(norms[i]) = num_components
        /\ \A c \in 1..num_components : NonNegative(norms[i][c])

\* C9: in every state of the scan the six norm vectors have as many
\* entries as the arrays have components and every entry is >= 0; a scan
\* step decreases no entry and changes only the entries of its component.
C9_Accumulators ==
    [][ /\ pc' = "scan" => AccumulatorsShape'
        /\ pc = "scan" =>
              /\ AccumulatorsShape
              /\ \A i \in 1..6 : NotSmaller(norms[i], norms'[i])
              /\ \A i \in 1..6 : SameBut(norms[i], norms'[i], component_idx + 1)
      ]_vars

\* the second component's last element is below both running maxima of
\* that component, and the first component has non-zero entries
C9_Witness ==
    /\ pc = "scan"
    /\ num_components = 2
    /\ elements_read = 4
    /\ Less(abs_err, abs_err_norm_max[2])
    /\ Less(rel_err, rel_err_norm_max[2])
    /\ Less(R(0), abs_err_norm_l1[1])

\* C10: when some element exceeded both thresholds the verdict is fail and
\* the exit status is not 0; a run that exits with 0 has flagged none and
\* written no per-element line.
C10_FlaggedImpliesFail ==
    Done =>
        /\ flagged => exit_status # EXIT_SUCCESS
        /\ exit_status = EXIT_SUCCESS =>
              (~flagged /\ LinesLabelled("tuple") = {})

\* a failing run whose flagged element is in the second component and is
\* not the last one read
C10_Witness ==
    /\ ScanFinished
    /\ flagged
    /\ exit_status = EXIT_FAILURE
    /\ num_components = 2
    /\ ~Less(args.abs_err_thr, abs_err_norm_max[1])
    /\ ~(Greater(abs_err, args.abs_err_thr) /\ Greater(rel_err, args.rel_err_thr))

============================================================================
